---- MODULE Spec2Model ----
(***************************************************************************)
(* Authentication / session / rate-limiting core of the text-rpg backend.  *)
(*                                                                         *)
(* Part I  : the sliding-window rate limiter, in its two implementations   *)
(*           (middleware/rate_limit.py and core/rate_limiting.py), over a  *)
(*           Redis sorted set per key.                                     *)
(* Part II : the auth service, in its two implementations (api/auth.py on  *)
(*           core/security.py + core/dependencies.py, and the mounted      *)
(*           routers/auth.py on core/auth.py), over the users and          *)
(*           user_sessions tables.                                         *)
(* Part III: the middleware stack main.py builds (RateLimitMiddleware      *)
(*           around SecurityMiddleware around the handlers) and the        *)
(*           security-event log of SecurityMiddleware.                     *)
(***************************************************************************)
EXTENDS Integers, Sequences, FiniteSets, TLC

(***************************************************************************)
(* PART I : RATE LIMITER                                                   *)
(***************************************************************************)

\* ---- bounds of the rate-limiter model
MaxTime == 60
MaxChecks == 6
\* the backing store fails at most this many times in a run
MaxFaults == 1
\* a second worker begins a check, while the first is inside one, at most this
\* many times in a run
MaxOverlaps == 1
\* the clock of the rate limiter advances by one of these amounts (seconds)
ClockSteps == {20, 60}
\* limits a run is configured with (rate_limit is an argument of the check)
Limits == {1, 2, 5}

\* ---- program constants
\* self.window_size = 60 ; is_allowed(window: int = 60)
window_size == 60
\* pipe.expire(key, self.window_size + 1)
mw_expire_slack == 1
\* pipe.expire(redis_key, window + 10)
core_expire_slack == 10

Keys == {"ip:a"}
Procs == {1, 2}
Limiters == {"middleware", "core"}

VARIABLES
    now,          \* int(time.time()) of the rate limiter's host, seconds
    redis_up,     \* the backing store answers (FALSE: every command raises)
    redis_client, \* RateLimitMiddleware.redis_client is not None
    rate_limit,   \* the limit the checks of this run are made with
    limiter,      \* which implementation serves the checks of this run
    zset,         \* Redis: key -> sorted set; member str(t) with score t is t
    expires,      \* Redis: key -> time at which the key is deleted (-1: no TTL)
    rl_pc,        \* per worker: position inside its check
    rl_req,       \* per worker: locals of the check in flight
    overlapped,   \* per worker: another check was in flight during this one
    history,      \* key -> sequence of completed checks, in completion order
    ncalls,       \* number of checks begun
    nfaults,      \* number of store failures so far
    noverlaps,    \* number of checks begun while another was in flight
    race          \* bookkeeping of two checks begun together on one key

rl_vars == <<now, redis_up, redis_client, rate_limit, limiter, zset, expires,
             rl_pc, rl_req, overlapped, history, ncalls, nfaults, noverlaps, race>>

VARIABLES
    clock,        \* datetime.now(timezone.utc) of the auth service, minutes
    users,        \* table users: sequence of rows, a row's id is its index
    sessions,     \* table user_sessions: sequence of rows, id is the index
    tokens,       \* the signed tokens minted so far (what clients may present)
    next_jti,     \* uuid4(): the next unused token id
    resp,         \* the response of the last auth request
    streak,       \* per user id: wrong-password logins since the last success
    rotated       \* refresh tokens with which a refresh has succeeded

auth_vars == <<clock, users, sessions, tokens, next_jti, resp, streak, rotated>>

\* pending: the requests whose handler has run its first database statements
\*          but not its last (one slot per concurrent client)
\* logins:  the refresh tokens returned by login, with the time and the
\*          remember_me of that login
\* ret:     the last direct call of an AuthUtils session helper and its value
VARIABLES pending, logins, ret

aux_vars == <<pending, logins, ret>>

\* the middleware stack of main.py
VARIABLES
    blocked_ips,          \* per SecurityMiddleware instance: self.blocked_ips
    security_event_cache, \* self.security_event_cache, the keys of the
                          \* (event type, client IP) pairs the model names
    fresh_events,         \* the number of its other keys
    warnings,             \* per named pair: warnings logged for it so far
    mw_count,             \* per client IP: entries of "ip:<IP>" in the window
    mw_resp               \* the last request served and its response

mw_vars == <<blocked_ips, security_event_cache, fresh_events, warnings,
             mw_count, mw_resp>>

\* ---- requests in flight, and what the checks remember
Clients == {1, 2}
NoPending == [op |-> "none"]
NoReturn == [fn |-> "none", jti |-> 0, value |-> FALSE, changed |-> FALSE]

InitAux ==
    /\ pending = [c \in Clients |-> NoPending]
    /\ logins = {}
    /\ ret = NoReturn

NoReq == [key |-> "none", t |-> -1, count |-> -1]
\* race.procs: the workers of the race whose check has not yet completed
NoRace == [key |-> "none", procs |-> {}, outcomes |-> <<>>]

\* ---- Redis sorted-set commands on a set of scores (member = str(score))
zremrangebyscore(S, lo, hi) == {m \in S : ~(lo <= m /\ m <= hi)}

zcard(S) == Cardinality(S)

\* zadd(key, {str(current_time): current_time}): a member already present
\* keeps its place, only its score is rewritten (to the same value)
zadd(S, t) == S \cup {t}

zrem(S, t) == S \ {t}

\* ---- the decisions of the two implementations
\* middleware: if current_requests >= rate_limit: denied
mw_denied(current_requests, lim) == current_requests >= lim

\* middleware: remaining = rate_limit - current_requests - 1
mw_remaining(current_requests, lim) == lim - current_requests - 1

\* core: is_allowed = current_requests < limit
core_is_allowed(current_requests, lim) == current_requests < lim

Max(a, b) == IF a >= b THEN a ELSE b

\* core: remaining = max(0, limit - current_requests - 1)
core_remaining(current_requests, lim) == Max(0, lim - current_requests - 1)

\* ---- bookkeeping of completed checks
Entry(t, outcome, remaining, via, solo) ==
    [t |-> t, outcome |-> outcome, remaining |-> remaining, via |-> via,
     solo |-> solo]

InFlight(p) == rl_pc[p] # "idle"

\* a check completes: its result is appended to the key's history, and to the
\* outcomes of the race it is part of
Complete(p, k, e) ==
    /\ history' = [history EXCEPT ![k] = Append(@, e)]
    /\ race' = IF p \in race.procs
               THEN [race EXCEPT !.outcomes = Append(@, e),
                                 !.procs = @ \ {p}]
               ELSE race
    /\ rl_pc' = [rl_pc EXCEPT ![p] = "idle"]
    /\ rl_req' = [rl_req EXCEPT ![p] = NoReq]
    /\ overlapped' = [overlapped EXCEPT ![p] = FALSE]

\* entries of `S` inside the window that ends at t
InWindow(S, t) == {m \in S : m > t - window_size}

\* two checks are begun together on key k, neither has reached the store yet,
\* their timestamps are less than a window apart, and the key holds exactly
\* rate_limit - 1 entries, all inside both windows
RaceStarts(p, k) ==
    \E q \in Procs \ {p} :
        /\ rl_pc[q] = "pipe"
        /\ rl_req[q].key = k
        /\ now - rl_req[q].t < window_size
        /\ Cardinality(zset[k]) = rate_limit - 1
        /\ InWindow(zset[k], now) = zset[k]
        /\ InWindow(zset[k], rl_req[q].t) = zset[k]

\* ---- a check begins: current_time = int(time.time())
Begin(p, k) ==
    /\ rl_pc[p] = "idle"
    /\ \A q \in Procs : q < p => InFlight(q)
    /\ ncalls < MaxChecks
    /\ ncalls' = ncalls + 1
    /\ (p > 1 => noverlaps < MaxOverlaps)
    /\ noverlaps' = IF p > 1 THEN noverlaps + 1 ELSE noverlaps
    /\ rl_pc' = [rl_pc EXCEPT ![p] = "pipe"]
    /\ rl_req' = [rl_req EXCEPT ![p] = [key |-> k, t |-> now, count |-> -1]]
    /\ overlapped' = [q \in Procs |->
                        IF \E r \in Procs \ {p} : InFlight(r)
                        THEN (q = p \/ InFlight(q) \/ overlapped[q])
                        ELSE (q # p /\ overlapped[q])]
    /\ race' = IF RaceStarts(p, k)
               THEN [key |-> k, procs |-> Procs, outcomes |-> <<>>]
               ELSE race
    /\ UNCHANGED <<now, redis_up, redis_client, rate_limit, limiter, zset,
                   expires, history, nfaults>>

\* RateLimitMiddleware._check_rate_limit, up to the clock read
_check_rate_limit_begin(p, k) ==
    /\ limiter = "middleware"
    /\ Begin(p, k)

\* RateLimitMiddleware._check_rate_limit: the pipeline (MULTI/EXEC) and the
\* decision; an allowed check returns here, a denied one goes on to zrem
_check_rate_limit_execute(p) ==
    /\ limiter = "middleware"
    /\ rl_pc[p] = "pipe"
    /\ LET k == rl_req[p].key
           t == rl_req[p].t
           trimmed == zremrangebyscore(zset[k], 0, t - window_size)
           current_requests == zcard(trimmed)
       IN IF ~redis_client
          THEN \* if not self.redis_client: return True, rate_limit - 1, ...
               /\ Complete(p, k, Entry(t, "allowed", rate_limit - 1,
                                       "fail_open", ~overlapped[p]))
               /\ UNCHANGED <<zset, expires>>
          ELSE IF ~redis_up
          THEN \* except Exception: return True, rate_limit - 1, ...
               /\ Complete(p, k, Entry(t, "allowed", rate_limit - 1,
                                       "fail_open", ~overlapped[p]))
               /\ UNCHANGED <<zset, expires>>
          ELSE /\ zset' = [zset EXCEPT ![k] = zadd(trimmed, t)]
               /\ expires' = [expires EXCEPT
                                 ![k] = now + window_size + mw_expire_slack]
               /\ IF mw_denied(current_requests, rate_limit)
                  THEN /\ rl_pc' = [rl_pc EXCEPT ![p] = "zrem"]
                       /\ rl_req' = [rl_req EXCEPT
                                        ![p].count = current_requests]
                       /\ UNCHANGED <<history, race, overlapped>>
                  ELSE Complete(p, k,
                          Entry(t, "allowed",
                                mw_remaining(current_requests, rate_limit),
                                "decision", ~overlapped[p]))
    /\ UNCHANGED <<now, redis_up, redis_client, rate_limit, limiter, ncalls,
                   nfaults, noverlaps>>

\* RateLimitMiddleware._check_rate_limit: self.redis_client.zrem(key,
\* str(current_time)) of a denied check, and its return
_check_rate_limit_zrem(p) ==
    /\ limiter = "middleware"
    /\ rl_pc[p] = "zrem"
    /\ LET k == rl_req[p].key
           t == rl_req[p].t
       IN IF ~redis_up
          THEN \* zrem raises: except Exception: return True, ...
               /\ Complete(p, k, Entry(t, "allowed", rate_limit - 1,
                                       "fail_open", ~overlapped[p]))
               /\ UNCHANGED <<zset, expires>>
          ELSE /\ zset' = [zset EXCEPT ![k] = zrem(@, t)]
               /\ expires' = [expires EXCEPT
                                 ![k] = IF zrem(zset[k], t) = {} THEN -1
                                        ELSE @]
               /\ Complete(p, k, Entry(t, "denied", 0, "decision",
                                       ~overlapped[p]))
    /\ UNCHANGED <<now, redis_up, redis_client, rate_limit, limiter, ncalls,
                   nfaults, noverlaps>>

\* core check_rate_limit -> RateLimiter.is_allowed, up to the clock read
is_allowed_begin(p, k) ==
    /\ limiter = "core"
    /\ Begin(p, k)

\* core RateLimiter.is_allowed: the pipeline and the decision, then
\* check_rate_limit: 429 when not allowed; a store error is not caught
is_allowed_execute(p) ==
    /\ limiter = "core"
    /\ rl_pc[p] = "pipe"
    /\ LET k == rl_req[p].key
           t == rl_req[p].t
           trimmed == zremrangebyscore(zset[k], 0, t - window_size)
           current_requests == zcard(trimmed)
       IN IF ~redis_up
          THEN /\ Complete(p, k, Entry(t, "error", -1, "store_error",
                                       ~overlapped[p]))
               /\ UNCHANGED <<zset, expires>>
          ELSE /\ zset' = [zset EXCEPT ![k] = zadd(trimmed, t)]
               /\ expires' = [expires EXCEPT
                                 ![k] = now + window_size + core_expire_slack]
               /\ Complete(p, k,
                     Entry(t,
                           IF core_is_allowed(current_requests, rate_limit)
                           THEN "allowed" ELSE "denied",
                           core_remaining(current_requests, rate_limit),
                           "decision", ~overlapped[p]))
    /\ UNCHANGED <<now, redis_up, redis_client, rate_limit, limiter, ncalls,
                   nfaults, noverlaps>>

\* the clock advances; Redis deletes the keys whose TTL has run out
Tick(d) ==
    /\ now + d <= MaxTime
    /\ now' = now + d
    /\ zset' = [k \in Keys |->
                  IF expires[k] # -1 /\ expires[k] <= now + d THEN {}
                  ELSE zset[k]]
    /\ expires' = [k \in Keys |->
                     IF expires[k] # -1 /\ expires[k] <= now + d THEN -1
                     ELSE expires[k]]
    /\ UNCHANGED <<redis_up, redis_client, rate_limit, limiter, rl_pc, rl_req,
                   overlapped, history, ncalls, nfaults, noverlaps, race>>

\* the backing store becomes unreachable / reachable again
RedisFail ==
    /\ redis_up
    /\ nfaults < MaxFaults
    /\ nfaults' = nfaults + 1
    /\ redis_up' = FALSE
    /\ UNCHANGED <<now, redis_client, rate_limit, limiter, zset, expires,
                   rl_pc, rl_req, overlapped, history, ncalls, noverlaps,
                   race>>

RedisRecover ==
    /\ ~redis_up
    /\ redis_up' = TRUE
    /\ UNCHANGED <<now, redis_client, rate_limit, limiter, zset, expires,
                   rl_pc, rl_req, overlapped, history, ncalls, nfaults, noverlaps, race>>

InitRL ==
    /\ now = 0
    /\ redis_up = TRUE
    /\ redis_client \in BOOLEAN
    /\ rate_limit \in Limits
    /\ limiter \in Limiters
    /\ (limiter = "core" => redis_client)
    /\ zset = [k \in Keys |-> {}]
    /\ expires = [k \in Keys |-> -1]
    /\ rl_pc = [p \in Procs |-> "idle"]
    /\ rl_req = [p \in Procs |-> NoReq]
    /\ overlapped = [p \in Procs |-> FALSE]
    /\ history = [k \in Keys |-> <<>>]
    /\ ncalls = 0
    /\ nfaults = 0
    /\ noverlaps = 0
    /\ race = NoRace

NextRL ==
    \/ \E p \in Procs, k \in Keys :
          _check_rate_limit_begin(p, k) /\ UNCHANGED <<auth_vars, aux_vars, mw_vars>>
    \/ \E p \in Procs :
          _check_rate_limit_execute(p) /\ UNCHANGED <<auth_vars, aux_vars, mw_vars>>
    \/ \E p \in Procs :
          _check_rate_limit_zrem(p) /\ UNCHANGED <<auth_vars, aux_vars, mw_vars>>
    \/ \E p \in Procs, k \in Keys :
          is_allowed_begin(p, k) /\ UNCHANGED <<auth_vars, aux_vars, mw_vars>>
    \/ \E p \in Procs :
          is_allowed_execute(p) /\ UNCHANGED <<auth_vars, aux_vars, mw_vars>>
    \/ \E d \in ClockSteps :
          Tick(d) /\ UNCHANGED <<auth_vars, aux_vars, mw_vars>>
    \/ RedisFail /\ UNCHANGED <<auth_vars, aux_vars, mw_vars>>
    \/ RedisRecover /\ UNCHANGED <<auth_vars, aux_vars, mw_vars>>



(***************************************************************************)
(* PART II : AUTH SERVICE                                                  *)
(*                                                                         *)
(* Two implementations work on the same tables: api/auth.py (tokens of     *)
(* core/security.py, dependencies of core/dependencies.py) and the mounted *)
(* routers/auth.py (tokens and helpers of core/auth.py AuthUtils).  ORM    *)
(* statements are taken to have the effect they are written for; a handler *)
(* is one transaction.                                                     *)
(***************************************************************************)

\* ---- bounds of the auth model
MaxClock == 30
MaxUsers == 2
MaxSessions == 3
MaxAttempts == 6
MaxTokens == 6
MaxLongClock == 10200
\* the clock of the auth service advances by one of these amounts (minutes)
AuthClockSteps == {30}
\* a long wait: more than a day and more than half of seven days
LongClockSteps == {5041}

\* ---- program constants (minutes)
\* if user.login_attempts >= 5
max_login_attempts == 5
\* timedelta(minutes=30)
lockout_minutes == 30
\* access_token_expires = timedelta(minutes=15)
access_token_minutes == 15
\* timedelta(days=7)
refresh_token_minutes == 10080
\* timedelta(days=7 if remember_me else 1): the else branch
short_session_minutes == 1440

\* ---- request inputs
Usernames == {"alice", "bob"}
Emails == {"alice@x.io", "bob@x.io"}
Identifiers == {"alice", "ALICE", "alice@x.io", "Alice@X.io", "bob", "carol"}
Passwords == {"pw1", "pw2"}
\* the password every registration in the model supplies
RegPassword == "pw1"

\* str.lower()
lower(s) ==
    CASE s = "ALICE" -> "alice"
      [] s = "Alice@X.io" -> "alice@x.io"
      [] s = "Alice@x.io" -> "alice@x.io"
      [] OTHER -> s

\* SQL ILIKE on identifiers without wildcard characters
ilike(column, pattern) == lower(column) = lower(pattern)

\* passlib verify(plain, hash): the hash of a password is modelled by the
\* password itself (equal exactly for the password that was hashed)
verify_password(plain_password, hashed_password) ==
    plain_password = hashed_password

create_password_hash(password) == password

UserIds == 1..Len(users)
SessionIds == 1..Len(sessions)

NoToken == [codec |-> "none", type |-> "none", sub |-> 0, jti |-> 0, exp |-> 0]
\* a token that does not decode (malformed or wrongly signed)
BadToken == [codec |-> "bad", type |-> "none", sub |-> 0, jti |-> 0, exp |-> 0]

\* ---- responses
Response(op, impl, status, detail, user, access, refresh) ==
    [op |-> op, impl |-> impl, status |-> status, detail |-> detail,
     user |-> user, access |-> access, refresh |-> refresh]

Error(op, impl, status, detail) ==
    Response(op, impl, status, detail, 0, NoToken, NoToken)

NoResponse == Error("none", "none", 0, "")

\* ---- core/security.py
\* create_access_token: exp, iat, fresh jti, token_type "access"
security_create_access_token(uid, jti) ==
    [codec |-> "security", type |-> "access", sub |-> uid, jti |-> jti,
     exp |-> clock + access_token_minutes]

\* create_refresh_token: exp, iat, fresh jti, token_type "refresh"
security_create_refresh_token(uid, jti) ==
    [codec |-> "security", type |-> "refresh", sub |-> uid, jti |-> jti,
     exp |-> clock + refresh_token_minutes]

\* verify_token(token, token_type): "ok" or the HTTPException it raises.
\* PyJWT rejects a token whose exp <= now; a token of AuthUtils carries no
\* "token_type" claim (and no "user_id"), so it never has the expected type.
security_verify_token(token, token_type) ==
    IF token.codec \notin {"security", "authutils"} THEN "invalid"
    ELSE IF token.exp <= clock THEN "invalid"
    ELSE IF token.codec # "security" \/ token.type # token_type THEN "invalid"
    ELSE "ok"

\* ---- core/auth.py AuthUtils
\* create_access_token: exp, iat, fresh jti, no type claim
authutils_create_access_token(uid, jti) ==
    [codec |-> "authutils", type |-> "access", sub |-> uid, jti |-> jti,
     exp |-> clock + access_token_minutes]

\* create_refresh_token(expires_delta): exp, iat, fresh jti, type "refresh"
authutils_create_refresh_token(uid, jti, minutes) ==
    [codec |-> "authutils", type |-> "refresh", sub |-> uid, jti |-> jti,
     exp |-> clock + minutes]

\* verify_token(token): "ok", "expired" or "invalid"; no type is expected.
\* python-jose rejects a token whose exp < now.
authutils_verify_token(token) ==
    IF token.codec \notin {"security", "authutils"} THEN "invalid"
    ELSE IF token.exp < clock THEN "expired"
    ELSE "ok"

\* payload.get("type"): only AuthUtils refresh tokens carry the claim "type"
payload_type(token) ==
    IF token.codec = "authutils" /\ token.type = "refresh" THEN "refresh"
    ELSE "none"

\* .first() of a query with these matches: the row of least id (0: None)
first(S) == IF S = {} THEN 0 ELSE CHOOSE x \in S : \A y \in S : x <= y

\* get_user_by_username / get_user_by_email (case-insensitive)
get_user_by_username(username) ==
    first({u \in UserIds : ilike(users[u].username, username)})

get_user_by_email(email) ==
    first({u \in UserIds : ilike(users[u].email, email)})

\* authenticate_user: by username, else by email; None (0) when there is no
\* such user or the password does not verify
authenticate_user(username, password) ==
    LET byname == get_user_by_username(username)
        user == IF byname # 0 THEN byname ELSE get_user_by_email(username)
    IN IF user = 0 THEN 0
       ELSE IF ~verify_password(password, users[user].hashed_password) THEN 0
       ELSE user

\* the mutated is_token_revoked: no token is ever reported revoked
is_token_revoked_never(token_jti) ==
    FALSE

\* is_token_revoked: no active session row carries the jti
is_token_revoked(token_jti) ==
    ~\E s \in SessionIds : sessions[s].token_jti = token_jti
                           /\ sessions[s].is_active

\* UserSession(...) as create_user_session / the handlers build it
new_session(uid, jti, expires_at) ==
    [user_id |-> uid, token_jti |-> jti, is_active |-> TRUE,
     created_at |-> clock, expires_at |-> expires_at, last_activity |-> clock]

new_user(username, email, password) ==
    [username |-> username, email |-> email,
     hashed_password |-> create_password_hash(password), status |-> "active",
     login_attempts |-> 0, locked_until |-> -1, created_at |-> clock]

\* ---- api/auth.py
\* login_user: the user the identifier selects (0: None)
api_find_user(identifier) ==
    first({u \in UserIds : \/ users[u].username = lower(identifier)
                           \/ users[u].email = lower(identifier)})

\* login_user: user.locked_until and user.locked_until > now
api_is_locked(u) ==
    users[u].locked_until # -1 /\ users[u].locked_until > clock

\* login_user: which way a login goes
api_login_case(identifier, password) ==
    LET u == api_find_user(identifier)
    IN IF u = 0 THEN "no_user"
       ELSE IF api_is_locked(u) THEN "locked"
       ELSE IF ~verify_password(password, users[u].hashed_password)
            THEN "wrong_password"
       ELSE IF users[u].status # "active" THEN "not_active"
       ELSE "success"

\* the mutated login_user of api/auth.py: a wrong password is reported as such
api_login_error_leaky(case) ==
    CASE case = "no_user" -> Error("login", "api", 401, "Invalid credentials")
      [] case = "locked" ->
            Error("login", "api", 423,
                  "Account temporarily locked due to too many failed attempts")
      [] case = "wrong_password" ->
            Error("login", "api", 401, "Invalid password")
      [] case = "not_active" -> Error("login", "api", 403, "Account is suspended")

\* login_user: the HTTPException of each failing way
api_login_error(case) ==
    CASE case = "no_user" -> Error("login", "api", 401, "Invalid credentials")
      [] case = "locked" ->
            Error("login", "api", 423,
                  "Account temporarily locked due to too many failed attempts")
      [] case = "wrong_password" ->
            Error("login", "api", 401, "Invalid credentials")
      [] case = "not_active" -> Error("login", "api", 403, "Account is suspended")

\* the mutated threshold: the account is locked at the fifth failure only
locks_account_at_fifth_only(login_attempts) ==
    login_attempts = max_login_attempts

\* login_user: if user.login_attempts >= 5 (after the increment)
locks_account(login_attempts) ==
    login_attempts >= max_login_attempts

\* register_user of api/auth.py: creates the user; no token, no session
api_register_user(username, email) ==
    /\ Len(users) < MaxUsers
       \/ \E u \in UserIds : \/ users[u].username = lower(username)
                              \/ users[u].email = email
    /\ IF \E u \in UserIds : users[u].username = lower(username)
       THEN /\ resp' = Error("register", "api", 409,
                             "Username already registered")
            /\ UNCHANGED <<users, streak>>
       ELSE IF \E u \in UserIds : users[u].email = email
       THEN /\ resp' = Error("register", "api", 409,
                             "Email already registered")
            /\ UNCHANGED <<users, streak>>
       ELSE /\ users' = Append(users,
                               new_user(lower(username), email, RegPassword))
            /\ streak' = Append(streak, 0)
            /\ resp' = Response("register", "api", 201, "", Len(users) + 1,
                                NoToken, NoToken)
    /\ UNCHANGED <<clock, sessions, tokens, next_jti, rotated>>

\* login_user of api/auth.py
api_login_user(identifier, password, remember_me) ==
    LET case == api_login_case(identifier, password)
        u == api_find_user(identifier)
        access == security_create_access_token(u, next_jti)
        refresh == security_create_refresh_token(u, next_jti + 1)
        session_expires == clock + (IF remember_me THEN refresh_token_minutes
                                    ELSE short_session_minutes)
    IN /\ case = "wrong_password" => users[u].login_attempts < MaxAttempts
       /\ case = "success" => /\ Len(sessions) < MaxSessions
                              /\ next_jti + 1 <= MaxTokens
       /\ IF case = "wrong_password"
          THEN /\ users' = [users EXCEPT
                              ![u].login_attempts = @ + 1,
                              ![u].locked_until =
                                  IF locks_account(
                                        users[u].login_attempts + 1)
                                  THEN clock + lockout_minutes ELSE @]
               /\ streak' = [streak EXCEPT ![u] = @ + 1]
               /\ resp' = api_login_error(case)
               /\ UNCHANGED <<sessions, tokens, next_jti>>
          ELSE IF case = "success"
          THEN /\ users' = [users EXCEPT ![u].login_attempts = 0,
                                         ![u].locked_until = -1]
               /\ streak' = [streak EXCEPT ![u] = 0]
               /\ tokens' = tokens \cup {access, refresh}
               /\ next_jti' = next_jti + 2
               /\ sessions' = Append(sessions,
                                 new_session(u, refresh.jti, session_expires))
               /\ resp' = Response("login", "api", 200, "", u, access, refresh)
          ELSE /\ resp' = api_login_error(case)
               /\ UNCHANGED <<users, streak, sessions, tokens, next_jti>>
       /\ UNCHANGED <<clock, rotated>>

\* ---- login of api/auth.py, statement by statement: the request reads the
\* user row, and a wrong password writes back the login_attempts it read,
\* plus one ("user.login_attempts += 1" on the loaded object, then commit).
\* login_user up to the password check; a request that does not fail on the
\* password is served in this one step
api_login_read(c, identifier, password) ==
    IF api_login_case(identifier, password) = "wrong_password"
    THEN /\ pending[c] = NoPending
         /\ users[api_find_user(identifier)].login_attempts < MaxAttempts
         /\ pending' = [pending EXCEPT ![c] =
                          [op |-> "login", impl |-> "api",
                           user |-> api_find_user(identifier),
                           login_attempts |->
                              users[api_find_user(identifier)].login_attempts]]
         /\ UNCHANGED auth_vars
    ELSE /\ pending[c] = NoPending
         /\ api_login_user(identifier, password, FALSE)
         /\ UNCHANGED pending

\* login_user from "user.login_attempts += 1" to the 401
api_login_write(c) ==
    LET u == pending[c].user
        login_attempts == pending[c].login_attempts + 1
    IN /\ pending[c].op = "login"
       /\ users' = [users EXCEPT
                      ![u].login_attempts = login_attempts,
                      ![u].locked_until =
                          IF locks_account(login_attempts)
                          THEN clock + lockout_minutes ELSE @]
       /\ streak' = [streak EXCEPT ![u] = @ + 1]
       /\ resp' = api_login_error("wrong_password")
       /\ pending' = [pending EXCEPT ![c] = NoPending]
       /\ UNCHANGED <<clock, sessions, tokens, next_jti, rotated>>

\* the mutated verify_refresh_token: the session row need not be active
verify_refresh_token_any_row(token) ==
    IF security_verify_token(token, "refresh") # "ok"
    THEN Error("refresh", "api", 401, "Could not validate credentials")
    ELSE IF token.sub \notin UserIds
    THEN Error("refresh", "api", 401, "User not found")
    ELSE IF users[token.sub].status # "active"
    THEN Error("refresh", "api", 403, "Account is suspended")
    ELSE IF ~\E s \in SessionIds : /\ sessions[s].user_id = token.sub
                                   /\ sessions[s].token_jti = token.jti
    THEN Error("refresh", "api", 401, "Invalid or expired refresh token")
    ELSE NoResponse

\* verify_refresh_token of core/dependencies.py: "ok" or the error raised
verify_refresh_token(token) ==
    IF security_verify_token(token, "refresh") # "ok"
    THEN Error("refresh", "api", 401, "Could not validate credentials")
    ELSE IF token.sub \notin UserIds
    THEN Error("refresh", "api", 401, "User not found")
    ELSE IF users[token.sub].status # "active"
    THEN Error("refresh", "api", 403, "Account is suspended")
    ELSE IF ~\E s \in SessionIds : /\ sessions[s].user_id = token.sub
                                   /\ sessions[s].token_jti = token.jti
                                   /\ sessions[s].is_active
    THEN Error("refresh", "api", 401, "Invalid or expired refresh token")
    ELSE NoResponse

\* refresh_token of api/auth.py, with its dependency verify_refresh_token
api_refresh_token(token) ==
    LET err == verify_refresh_token(token)
        u == token.sub
        access == security_create_access_token(u, next_jti)
        refresh == security_create_refresh_token(u, next_jti + 1)
        user_session == first({s \in SessionIds :
                                  /\ sessions[s].user_id = u
                                  /\ sessions[s].token_jti = token.jti
                                  /\ sessions[s].is_active})
    IN /\ err = NoResponse => next_jti + 1 <= MaxTokens
       /\ IF err # NoResponse
          THEN /\ resp' = err
               /\ UNCHANGED <<sessions, tokens, next_jti, rotated>>
          ELSE /\ tokens' = tokens \cup {access, refresh}
               /\ next_jti' = next_jti + 2
               /\ sessions' = IF user_session # 0
                              THEN [sessions EXCEPT
                                      ![user_session].token_jti = refresh.jti,
                                      ![user_session].last_activity = clock]
                              ELSE sessions
               /\ rotated' = rotated \cup {token}
               /\ resp' = Response("refresh", "api", 200, "", u, access,
                                   refresh)
       /\ UNCHANGED <<clock, users, streak>>

\* get_current_user of core/dependencies.py: NoResponse or the error raised
dependencies_get_current_user(op, token) ==
    IF security_verify_token(token, "access") # "ok"
    THEN Error(op, "api", 401, "Could not validate credentials")
    ELSE IF token.sub \notin UserIds
    THEN Error(op, "api", 401, "User not found")
    ELSE IF users[token.sub].status # "active"
    THEN Error(op, "api", 403, "Account is suspended")
    ELSE IF /\ users[token.sub].locked_until # -1
            /\ users[token.sub].locked_until > users[token.sub].created_at
    THEN Error(op, "api", 423,
               "Account is temporarily locked due to too many failed login attempts")
    ELSE NoResponse

\* the active sessions of user u with the greatest last_activity
latest_sessions(u) ==
    LET active == {s \in SessionIds : sessions[s].user_id = u
                                      /\ sessions[s].is_active}
    IN {s \in active : \A r \in active :
            sessions[r].last_activity <= sessions[s].last_activity}

\* logout_user of api/auth.py, with its dependency get_current_user
api_logout_user(token) ==
    LET err == dependencies_get_current_user("logout", token)
    IN /\ IF err # NoResponse
          THEN /\ resp' = err
               /\ UNCHANGED sessions
          ELSE /\ resp' = Response("logout", "api", 204, "", token.sub,
                                   NoToken, NoToken)
               /\ \/ /\ latest_sessions(token.sub) = {}
                     /\ UNCHANGED sessions
                  \/ \E latest_session \in latest_sessions(token.sub) :
                        sessions' = [sessions EXCEPT
                                       ![latest_session].is_active = FALSE]
       /\ UNCHANGED <<clock, users, tokens, next_jti, streak, rotated>>

\* ---- routers/auth.py (mounted by main.py)
\* register_user of routers/auth.py: creates the user, a token pair and a
\* session row keyed by the access token's jti
router_register_user(username, email) ==
    LET conflict_name == get_user_by_username(lower(username)) # 0
        conflict_email == get_user_by_email(email) # 0
        uid == Len(users) + 1
        access == [authutils_create_access_token(uid, next_jti)
                      EXCEPT !.sub = uid]
        refresh == authutils_create_refresh_token(uid, next_jti + 1,
                                                  refresh_token_minutes)
    IN /\ (~conflict_name /\ ~conflict_email) =>
            /\ Len(users) < MaxUsers
            /\ Len(sessions) < MaxSessions
            /\ next_jti + 1 <= MaxTokens
       /\ IF conflict_name
          THEN /\ resp' = Error("register", "routers", 400,
                                "Username already exists")
               /\ UNCHANGED <<users, streak, sessions, tokens, next_jti>>
          ELSE IF conflict_email
          THEN /\ resp' = Error("register", "routers", 400,
                                "Email already registered")
               /\ UNCHANGED <<users, streak, sessions, tokens, next_jti>>
          ELSE /\ users' = Append(users,
                              new_user(lower(username), email, RegPassword))
               /\ streak' = Append(streak, 0)
               /\ tokens' = tokens \cup {access, refresh}
               /\ next_jti' = next_jti + 2
               /\ sessions' = Append(sessions,
                                 new_session(uid, access.jti, access.exp))
               /\ resp' = Response("register", "routers", 200,
                                   "Registration successful", uid, access,
                                   refresh)
       /\ UNCHANGED <<clock, rotated>>

\* ---- registration, statement by statement: the selects of a request and
\* its INSERT are separate statements, and requests served by different
\* workers interleave between them.  User.username and User.email are
\* declared unique: an INSERT that repeats one raises IntegrityError.
unique_violation(username, email) ==
    \E u \in UserIds : \/ users[u].username = username
                       \/ users[u].email = email

\* register_user of api/auth.py up to the second select
api_register_check(c, username, email) ==
    /\ pending[c] = NoPending
    /\ IF \E u \in UserIds : users[u].username = lower(username)
       THEN /\ resp' = Error("register", "api", 409,
                             "Username already registered")
            /\ UNCHANGED pending
       ELSE IF \E u \in UserIds : users[u].email = email
       THEN /\ resp' = Error("register", "api", 409,
                             "Email already registered")
            /\ UNCHANGED pending
       ELSE /\ pending' = [pending EXCEPT ![c] =
                             [op |-> "register", impl |-> "api",
                              username |-> lower(username), email |-> email]]
            /\ UNCHANGED resp
    /\ UNCHANGED <<clock, users, sessions, tokens, next_jti, streak, rotated>>

\* register_user of api/auth.py from session.add(new_user): the
\* IntegrityError of the commit is not caught and the server answers 500
api_register_commit(c) ==
    LET username == pending[c].username
        email == pending[c].email
    IN /\ pending[c].op = "register"
       /\ pending[c].impl = "api"
       /\ ~unique_violation(username, email) => Len(users) < MaxUsers
       /\ IF unique_violation(username, email)
          THEN /\ resp' = Error("register", "api", 500,
                                "Internal Server Error")
               /\ UNCHANGED <<users, streak>>
          ELSE /\ users' = Append(users, new_user(username, email, RegPassword))
               /\ streak' = Append(streak, 0)
               /\ resp' = Response("register", "api", 201, "", Len(users) + 1,
                                   NoToken, NoToken)
       /\ pending' = [pending EXCEPT ![c] = NoPending]
       /\ UNCHANGED <<clock, sessions, tokens, next_jti, rotated>>

\* register_user of routers/auth.py up to the second select
router_register_check(c, username, email) ==
    /\ pending[c] = NoPending
    /\ IF get_user_by_username(lower(username)) # 0
       THEN /\ resp' = Error("register", "routers", 400,
                             "Username already exists")
            /\ UNCHANGED pending
       ELSE IF get_user_by_email(email) # 0
       THEN /\ resp' = Error("register", "routers", 400,
                             "Email already registered")
            /\ UNCHANGED pending
       ELSE /\ pending' = [pending EXCEPT ![c] =
                             [op |-> "register", impl |-> "routers",
                              username |-> lower(username), email |-> email]]
            /\ UNCHANGED resp
    /\ UNCHANGED <<clock, users, sessions, tokens, next_jti, streak, rotated>>

\* register_user of routers/auth.py from session.add(new_user): the
\* IntegrityError of the first commit is caught by "except Exception",
\* rolled back and answered with 500 "Registration failed"
router_register_commit(c) ==
    LET username == pending[c].username
        email == pending[c].email
        uid == Len(users) + 1
        access == authutils_create_access_token(uid, next_jti)
        refresh == authutils_create_refresh_token(uid, next_jti + 1,
                                                  refresh_token_minutes)
    IN /\ pending[c].op = "register"
       /\ pending[c].impl = "routers"
       /\ ~unique_violation(username, email) =>
            /\ Len(users) < MaxUsers
            /\ Len(sessions) < MaxSessions
            /\ next_jti + 1 <= MaxTokens
       /\ IF unique_violation(username, email)
          THEN /\ resp' = Error("register", "routers", 500,
                                "Registration failed")
               /\ UNCHANGED <<users, streak, sessions, tokens, next_jti>>
          ELSE /\ users' = Append(users, new_user(username, email, RegPassword))
               /\ streak' = Append(streak, 0)
               /\ tokens' = tokens \cup {access, refresh}
               /\ next_jti' = next_jti + 2
               /\ sessions' = Append(sessions,
                                 new_session(uid, access.jti, access.exp))
               /\ resp' = Response("register", "routers", 200,
                                   "Registration successful", uid, access,
                                   refresh)
       /\ pending' = [pending EXCEPT ![c] = NoPending]
       /\ UNCHANGED <<clock, rotated>>

\* login_user of routers/auth.py: which way a login goes
router_login_case(identifier, password) ==
    LET user == authenticate_user(identifier, password)
    IN IF user = 0 THEN "not_authenticated"
       ELSE IF users[user].status # "active" THEN "not_active"
       ELSE "success"

\* login_user of routers/auth.py: the HTTPException of each failing way
router_login_error(case) ==
    CASE case = "not_authenticated" ->
            Error("login", "routers", 401, "Incorrect username or password")
      [] case = "not_active" ->
            Error("login", "routers", 401, "Account is not active")

\* the user a failed authenticate_user found before the password check (0:
\* none); used only to keep the count of consecutive wrong passwords
found_user(identifier) ==
    IF get_user_by_username(identifier) # 0
    THEN get_user_by_username(identifier)
    ELSE get_user_by_email(identifier)

\* login_user of routers/auth.py
router_login_user(identifier, password, remember_me) ==
    LET case == router_login_case(identifier, password)
        u == found_user(identifier)
        access == authutils_create_access_token(u, next_jti)
        refresh == authutils_create_refresh_token(u, next_jti + 1,
                      IF remember_me THEN refresh_token_minutes
                      ELSE short_session_minutes)
    IN /\ (case = "not_authenticated" /\ u # 0) => streak[u] < MaxAttempts
       /\ case = "success" => /\ Len(sessions) < MaxSessions
                              /\ next_jti + 1 <= MaxTokens
       /\ IF case = "success"
          THEN /\ users' = [users EXCEPT ![u].login_attempts = 0]
               /\ streak' = [streak EXCEPT ![u] = 0]
               /\ tokens' = tokens \cup {access, refresh}
               /\ next_jti' = next_jti + 2
               /\ sessions' = Append(sessions,
                                 new_session(u, access.jti, access.exp))
               /\ resp' = Response("login", "routers", 200, "Login successful",
                                   u, access, refresh)
          ELSE /\ resp' = router_login_error(case)
               /\ streak' = IF case = "not_authenticated" /\ u # 0
                            THEN [streak EXCEPT ![u] = @ + 1] ELSE streak
               /\ UNCHANGED <<users, sessions, tokens, next_jti>>
       /\ UNCHANGED <<clock, rotated>>

\* refresh_token of routers/auth.py: NoResponse or the error raised
router_refresh_error(token) ==
    IF authutils_verify_token(token) = "expired"
    THEN Error("refresh", "routers", 401, "Token has expired")
    ELSE IF authutils_verify_token(token) = "invalid"
    THEN Error("refresh", "routers", 401, "Invalid token")
    ELSE IF payload_type(token) # "refresh"
    THEN Error("refresh", "routers", 401, "Invalid token type")
    ELSE IF token.sub \notin UserIds \/ users[token.sub].status # "active"
    THEN Error("refresh", "routers", 401, "User not found or inactive")
    ELSE NoResponse

\* refresh_token of routers/auth.py
router_refresh_token(token) ==
    LET err == router_refresh_error(token)
        u == token.sub
        access == authutils_create_access_token(u, next_jti)
        refresh == authutils_create_refresh_token(u, next_jti + 1,
                                                  refresh_token_minutes)
    IN /\ err = NoResponse => /\ Len(sessions) < MaxSessions
                              /\ next_jti + 1 <= MaxTokens
       /\ IF err # NoResponse
          THEN /\ resp' = err
               /\ UNCHANGED <<sessions, tokens, next_jti, rotated>>
          ELSE /\ tokens' = tokens \cup {access, refresh}
               /\ next_jti' = next_jti + 2
               /\ sessions' = Append(sessions,
                                 new_session(u, access.jti, access.exp))
               /\ rotated' = rotated \cup {token}
               /\ resp' = Response("refresh", "routers", 200, "", u, access,
                                   refresh)
       /\ UNCHANGED <<clock, users, streak>>

\* get_current_user of routers/auth.py: NoResponse or the error raised.  A
\* token of core/security.py carries the username as "sub": UUID(sub) raises
\* and the handler answers "Authentication failed" unless the revocation
\* check has already rejected the token.
router_get_current_user(op, token) ==
    IF authutils_verify_token(token) = "expired"
    THEN Error(op, "routers", 401, "Token has expired")
    ELSE IF authutils_verify_token(token) = "invalid"
    THEN Error(op, "routers", 401, "Invalid token")
    ELSE IF is_token_revoked(token.jti)
    THEN Error(op, "routers", 401, "Token has been revoked")
    ELSE IF token.codec = "security"
    THEN Error(op, "routers", 401, "Authentication failed")
    ELSE IF token.sub \notin UserIds
    THEN Error(op, "routers", 401, "User not found")
    ELSE IF users[token.sub].status # "active"
    THEN Error(op, "routers", 401, "User account is not active")
    ELSE NoResponse

\* revoke_user_session of AuthUtils: the table after the call
revoke_user_session(token_jti) ==
    LET user_session == first({s \in SessionIds :
                                  sessions[s].token_jti = token_jti})
    IN IF user_session # 0
       THEN [sessions EXCEPT ![user_session].is_active = FALSE]
       ELSE sessions

\* logout_user of routers/auth.py, with its dependency get_current_user
router_logout_user(token, revoke_all_sessions) ==
    LET err == router_get_current_user("logout", token)
    IN /\ IF err # NoResponse
          THEN /\ resp' = err
               /\ UNCHANGED sessions
          ELSE /\ resp' = Response("logout", "routers", 200,
                                   "Logout successful", token.sub, NoToken,
                                   NoToken)
               /\ sessions' =
                    IF revoke_all_sessions
                    THEN [s \in SessionIds |->
                            IF sessions[s].user_id = token.sub
                            THEN [sessions[s] EXCEPT !.is_active = FALSE]
                            ELSE sessions[s]]
                    ELSE revoke_user_session(token.jti)
       /\ UNCHANGED <<clock, users, tokens, next_jti, streak, rotated>>

\* ---- password change and session termination
\* change_password of api/auth.py, with its dependency get_current_user:
\* stores the new hash and inactivates every active session of the user
api_change_password(token, current_password, new_password) ==
    LET err == dependencies_get_current_user("change_password", token)
        u == token.sub
    IN /\ IF err # NoResponse
          THEN /\ resp' = err
               /\ UNCHANGED <<users, sessions>>
          ELSE IF ~verify_password(current_password, users[u].hashed_password)
          THEN /\ resp' = Error("change_password", "api", 400,
                                "Current password is incorrect")
               /\ UNCHANGED <<users, sessions>>
          ELSE /\ users' = [users EXCEPT ![u].hashed_password =
                                         create_password_hash(new_password)]
               /\ sessions' = [s \in SessionIds |->
                                 IF sessions[s].user_id = u
                                 THEN [sessions[s] EXCEPT !.is_active = FALSE]
                                 ELSE sessions[s]]
               /\ resp' = Response("change_password", "api", 204, "", u,
                                   NoToken, NoToken)
       /\ UNCHANGED <<clock, tokens, next_jti, streak, rotated>>

\* change_password of routers/auth.py, with its dependency get_current_user:
\* stores the new hash; the session table is not touched
router_change_password(token, current_password, new_password) ==
    LET err == router_get_current_user("change_password", token)
        u == token.sub
    IN /\ IF err # NoResponse
          THEN /\ resp' = err
               /\ UNCHANGED users
          ELSE IF ~verify_password(current_password, users[u].hashed_password)
          THEN /\ resp' = Error("change_password", "routers", 400,
                                "Current password is incorrect")
               /\ UNCHANGED users
          ELSE /\ users' = [users EXCEPT ![u].hashed_password =
                                         create_password_hash(new_password)]
               /\ resp' = Response("change_password", "routers", 200,
                                   "Password changed successfully", u,
                                   NoToken, NoToken)
       /\ UNCHANGED <<clock, sessions, tokens, next_jti, streak, rotated>>

\* the session ids a client may name in the path (one of them names no row)
SessionPathIds == 1..(Len(sessions) + 1)

\* terminate_user_session of api/auth.py, with its dependency get_current_user
api_terminate_user_session(token, session_id) ==
    LET err == dependencies_get_current_user("terminate", token)
        u == token.sub
        found == /\ session_id \in SessionIds
                 /\ sessions[session_id].user_id = u
                 /\ sessions[session_id].is_active
    IN /\ IF err # NoResponse
          THEN /\ resp' = err
               /\ UNCHANGED sessions
          ELSE IF ~found
          THEN /\ resp' = Error("terminate", "api", 404, "Session not found")
               /\ UNCHANGED sessions
          ELSE /\ sessions' = [sessions EXCEPT ![session_id].is_active = FALSE]
               /\ resp' = Response("terminate", "api", 204, "", u, NoToken,
                                   NoToken)
       /\ UNCHANGED <<clock, users, tokens, next_jti, streak, rotated>>

\* revoke_user_session (DELETE /sessions/{session_id}) of routers/auth.py,
\* with its dependency get_current_user
router_revoke_session(token, session_id) ==
    LET err == router_get_current_user("terminate", token)
        u == token.sub
        found == /\ session_id \in SessionIds
                 /\ sessions[session_id].user_id = u
                 /\ sessions[session_id].is_active
    IN /\ IF err # NoResponse
          THEN /\ resp' = err
               /\ UNCHANGED sessions
          ELSE IF ~found
          THEN /\ resp' = Error("terminate", "routers", 404,
                                "Session not found")
               /\ UNCHANGED sessions
          ELSE /\ sessions' = [sessions EXCEPT ![session_id].is_active = FALSE]
               /\ resp' = Response("terminate", "routers", 200,
                                   "Session revoked successfully", u, NoToken,
                                   NoToken)
       /\ UNCHANGED <<clock, users, tokens, next_jti, streak, rotated>>

\* get_user_sessions of api/auth.py and of routers/auth.py: read-only
api_get_user_sessions(token) ==
    LET err == dependencies_get_current_user("sessions", token)
    IN /\ resp' = IF err # NoResponse THEN err
                  ELSE Response("sessions", "api", 200, "", token.sub,
                                NoToken, NoToken)
       /\ UNCHANGED <<clock, users, sessions, tokens, next_jti, streak,
                      rotated>>

router_get_user_sessions(token) ==
    LET err == router_get_current_user("sessions", token)
    IN /\ resp' = IF err # NoResponse THEN err
                  ELSE Response("sessions", "routers", 200, "", token.sub,
                                NoToken, NoToken)
       /\ UNCHANGED <<clock, users, sessions, tokens, next_jti, streak,
                      rotated>>

\* ---- refresh_token of api/auth.py as the database sees it: the dependency
\* verify_refresh_token reads the session row, the handler reads it again
\* and writes it; statements of other requests may run in between
api_refresh_token_verify(c, token) ==
    LET err == verify_refresh_token(token)
    IN /\ pending[c] = NoPending
       /\ IF err # NoResponse
          THEN /\ resp' = err
               /\ UNCHANGED pending
          ELSE /\ pending' = [pending EXCEPT
                                ![c] = [op |-> "refresh", token |-> token]]
               /\ UNCHANGED resp
       /\ UNCHANGED <<clock, users, sessions, tokens, next_jti, streak,
                      rotated, logins, ret>>

api_refresh_token_handler(c) ==
    /\ pending[c] # NoPending
    /\ pending[c].op = "refresh"
    /\ next_jti + 1 <= MaxTokens
    /\ LET token == pending[c].token
           u == token.sub
           access == security_create_access_token(u, next_jti)
           refresh == security_create_refresh_token(u, next_jti + 1)
           user_session == first({s \in SessionIds :
                                     /\ sessions[s].user_id = u
                                     /\ sessions[s].token_jti = token.jti
                                     /\ sessions[s].is_active})
       IN /\ tokens' = tokens \cup {access, refresh}
          /\ next_jti' = next_jti + 2
          /\ sessions' = IF user_session # 0
                         THEN [sessions EXCEPT
                                 ![user_session].token_jti = refresh.jti,
                                 ![user_session].last_activity = clock]
                         ELSE sessions
          /\ rotated' = rotated \cup {token}
          /\ resp' = Response("refresh", "api", 200, "", u, access, refresh)
    /\ pending' = [pending EXCEPT ![c] = NoPending]
    /\ UNCHANGED <<clock, users, streak, logins, ret>>

\* ---- AuthUtils.revoke_user_session called on its own: the table after the
\* call, the value returned, and whether an active row was changed
authutils_revoke_user_session(token_jti) ==
    LET user_session == first({s \in SessionIds :
                                  sessions[s].token_jti = token_jti})
    IN /\ sessions' = revoke_user_session(token_jti)
       /\ ret' = [fn |-> "revoke_user_session", jti |-> token_jti,
                  value |-> user_session # 0,
                  changed |-> /\ user_session # 0
                              /\ sessions[user_session].is_active]
       /\ UNCHANGED <<clock, users, tokens, next_jti, resp, streak, rotated,
                      pending, logins>>

\* time passes
AuthTick(d) ==
    /\ clock + d <= MaxClock
    /\ clock' = clock + d
    /\ UNCHANGED <<users, sessions, tokens, next_jti, resp, streak, rotated>>

\* a long time passes
AuthWait(d) ==
    /\ clock + d <= MaxLongClock
    /\ clock' = clock + d
    /\ UNCHANGED <<users, sessions, tokens, next_jti, resp, streak, rotated>>

InitAuth ==
    /\ clock = 0
    /\ users = <<>>
    /\ sessions = <<>>
    /\ tokens = {}
    /\ next_jti = 1
    /\ resp = NoResponse
    /\ streak = <<>>
    /\ rotated = {}

\* what a client may present as a bearer / refresh token
Presentable == tokens \cup {BadToken}

NextAuth ==
    \/ \E n \in Usernames, e \in Emails :
          api_register_user(n, e) /\ UNCHANGED <<mw_vars, rl_vars, aux_vars>>
    \/ \E i \in Identifiers, pw \in Passwords, r \in BOOLEAN :
          api_login_user(i, pw, r) /\ UNCHANGED <<mw_vars, rl_vars, aux_vars>>
    \/ \E t \in Presentable :
          api_refresh_token(t) /\ UNCHANGED <<mw_vars, rl_vars, aux_vars>>
    \/ \E t \in Presentable :
          api_logout_user(t) /\ UNCHANGED <<mw_vars, rl_vars, aux_vars>>
    \/ \E n \in Usernames, e \in Emails :
          router_register_user(n, e) /\ UNCHANGED <<mw_vars, rl_vars, aux_vars>>
    \/ \E i \in Identifiers, pw \in Passwords, r \in BOOLEAN :
          router_login_user(i, pw, r) /\ UNCHANGED <<mw_vars, rl_vars, aux_vars>>
    \/ \E t \in Presentable :
          router_refresh_token(t) /\ UNCHANGED <<mw_vars, rl_vars, aux_vars>>
    \/ \E t \in Presentable, all \in BOOLEAN :
          router_logout_user(t, all) /\ UNCHANGED <<mw_vars, rl_vars, aux_vars>>
    \/ \E d \in AuthClockSteps :
          AuthTick(d) /\ UNCHANGED <<mw_vars, rl_vars, aux_vars>>

\* registration and login only: the clients present no token and one account
\* is in use
LoginNames == {"alice"}
LoginEmails == {"alice@x.io"}

NextLogin ==
    \/ \E n \in LoginNames, e \in LoginEmails :
          api_register_user(n, e) /\ UNCHANGED <<mw_vars, rl_vars, aux_vars>>
    \/ \E i \in Identifiers, pw \in Passwords, r \in BOOLEAN :
          api_login_user(i, pw, r) /\ UNCHANGED <<mw_vars, rl_vars, aux_vars>>
    \/ \E n \in LoginNames, e \in LoginEmails :
          router_register_user(n, e) /\ UNCHANGED <<mw_vars, rl_vars, aux_vars>>
    \/ \E i \in Identifiers, pw \in Passwords, r \in BOOLEAN :
          router_login_user(i, pw, r) /\ UNCHANGED <<mw_vars, rl_vars, aux_vars>>
    \/ \E d \in AuthClockSteps :
          AuthTick(d) /\ UNCHANGED <<mw_vars, rl_vars, aux_vars>>

\* the life of sessions: one account, and the clients log in with the right
\* password
NextSession ==
    \/ \E n \in LoginNames, e \in LoginEmails :
          api_register_user(n, e) /\ UNCHANGED <<mw_vars, rl_vars, aux_vars>>
    \/ \E i \in LoginNames, r \in BOOLEAN :
          api_login_user(i, RegPassword, r) /\ UNCHANGED <<mw_vars, rl_vars, aux_vars>>
    \/ \E t \in Presentable :
          api_refresh_token(t) /\ UNCHANGED <<mw_vars, rl_vars, aux_vars>>
    \/ \E t \in Presentable :
          api_logout_user(t) /\ UNCHANGED <<mw_vars, rl_vars, aux_vars>>
    \/ \E n \in LoginNames, e \in LoginEmails :
          router_register_user(n, e) /\ UNCHANGED <<mw_vars, rl_vars, aux_vars>>
    \/ \E i \in LoginNames, r \in BOOLEAN :
          router_login_user(i, RegPassword, r) /\ UNCHANGED <<mw_vars, rl_vars, aux_vars>>
    \/ \E t \in Presentable :
          router_refresh_token(t) /\ UNCHANGED <<mw_vars, rl_vars, aux_vars>>
    \/ \E t \in Presentable, all \in BOOLEAN :
          router_logout_user(t, all) /\ UNCHANGED <<mw_vars, rl_vars, aux_vars>>
    \/ \E d \in AuthClockSteps :
          AuthTick(d) /\ UNCHANGED <<mw_vars, rl_vars, aux_vars>>

\* requests of api/auth.py racing on one account: the clients log in with
\* the current password, and a refresh runs as two database steps
NextRace ==
    \/ \E n \in LoginNames, e \in LoginEmails :
          api_register_user(n, e) /\ UNCHANGED <<mw_vars, rl_vars, aux_vars>>
    \/ \E i \in LoginNames, pw \in Passwords :
          /\ api_login_case(i, pw) = "success"
          /\ api_login_user(i, pw, FALSE)
          /\ UNCHANGED <<mw_vars, rl_vars, aux_vars>>
    \/ \E c \in Clients, t \in Presentable :
          api_refresh_token_verify(c, t) /\ UNCHANGED <<mw_vars, rl_vars>>
    \/ \E c \in Clients :
          api_refresh_token_handler(c) /\ UNCHANGED <<mw_vars, rl_vars>>
    \/ \E t \in Presentable :
          api_logout_user(t) /\ UNCHANGED <<mw_vars, rl_vars, aux_vars>>
    \/ \E t \in Presentable, id \in SessionPathIds :
          api_terminate_user_session(t, id) /\ UNCHANGED <<mw_vars, rl_vars, aux_vars>>
    \/ \E t \in Presentable, cur \in Passwords, new \in Passwords :
          api_change_password(t, cur, new) /\ UNCHANGED <<mw_vars, rl_vars, aux_vars>>
    \/ \E d \in AuthClockSteps :
          AuthTick(d) /\ UNCHANGED <<mw_vars, rl_vars, aux_vars>>

\* the accounts whose sessions are revoked: the clients log in with the
\* current password and present their tokens
OneAccount == {<<"alice", "alice@x.io">>}
Accounts == {<<"alice", "alice@x.io">>, <<"bob", "bob@x.io">>}
\* a clock step that ends exactly when an access token minted before it does
ShortClockSteps == {15}

\* one account, revoked in every way the service offers, within the life of
\* its tokens
NextRevoke ==
    \/ \E a \in OneAccount :
          api_register_user(a[1], a[2]) /\ UNCHANGED <<mw_vars, rl_vars, aux_vars>>
    \/ \E a \in OneAccount :
          router_register_user(a[1], a[2]) /\ UNCHANGED <<mw_vars, rl_vars, aux_vars>>
    \/ \E a \in OneAccount, pw \in Passwords :
          /\ api_login_case(a[1], pw) = "success"
          /\ api_login_user(a[1], pw, FALSE)
          /\ UNCHANGED <<mw_vars, rl_vars, aux_vars>>
    \/ \E a \in OneAccount, pw \in Passwords :
          /\ router_login_case(a[1], pw) = "success"
          /\ router_login_user(a[1], pw, FALSE)
          /\ UNCHANGED <<mw_vars, rl_vars, aux_vars>>
    \/ \E t \in Presentable :
          api_refresh_token(t) /\ UNCHANGED <<mw_vars, rl_vars, aux_vars>>
    \/ \E t \in Presentable :
          router_refresh_token(t) /\ UNCHANGED <<mw_vars, rl_vars, aux_vars>>
    \/ \E t \in Presentable :
          api_logout_user(t) /\ UNCHANGED <<mw_vars, rl_vars, aux_vars>>
    \/ \E t \in Presentable, all \in BOOLEAN :
          router_logout_user(t, all) /\ UNCHANGED <<mw_vars, rl_vars, aux_vars>>
    \/ \E t \in Presentable, cur \in Passwords, new \in Passwords :
          api_change_password(t, cur, new) /\ UNCHANGED <<mw_vars, rl_vars, aux_vars>>
    \/ \E t \in Presentable, cur \in Passwords, new \in Passwords :
          router_change_password(t, cur, new) /\ UNCHANGED <<mw_vars, rl_vars, aux_vars>>
    \/ \E t \in Presentable, id \in SessionPathIds :
          api_terminate_user_session(t, id) /\ UNCHANGED <<mw_vars, rl_vars, aux_vars>>
    \/ \E t \in Presentable, id \in SessionPathIds :
          router_revoke_session(t, id) /\ UNCHANGED <<mw_vars, rl_vars, aux_vars>>
    \/ \E t \in Presentable :
          api_get_user_sessions(t) /\ UNCHANGED <<mw_vars, rl_vars, aux_vars>>
    \/ \E t \in Presentable :
          router_get_user_sessions(t) /\ UNCHANGED <<mw_vars, rl_vars, aux_vars>>

\* two accounts, their logins and logouts
NextLogout ==
    \/ \E a \in Accounts :
          api_register_user(a[1], a[2]) /\ UNCHANGED <<mw_vars, rl_vars, aux_vars>>
    \/ \E a \in Accounts, pw \in Passwords :
          /\ api_login_case(a[1], pw) = "success"
          /\ api_login_user(a[1], pw, FALSE)
          /\ UNCHANGED <<mw_vars, rl_vars, aux_vars>>
    \/ \E a \in Accounts, pw \in Passwords :
          /\ router_login_case(a[1], pw) = "success"
          /\ router_login_user(a[1], pw, FALSE)
          /\ UNCHANGED <<mw_vars, rl_vars, aux_vars>>
    \/ \E t \in Presentable :
          api_logout_user(t) /\ UNCHANGED <<mw_vars, rl_vars, aux_vars>>
    \/ \E t \in Presentable, all \in BOOLEAN :
          router_logout_user(t, all) /\ UNCHANGED <<mw_vars, rl_vars, aux_vars>>
    \/ \E d \in ShortClockSteps :
          AuthTick(d) /\ UNCHANGED <<mw_vars, rl_vars, aux_vars>>

\* what the client of a successful login keeps: the two tokens, with the
\* time of the login and the remember_me it asked for
record_login(remember_me) ==
    logins' = logins \cup
        {[token |-> resp'.access, at |-> clock, remember_me |-> remember_me],
         [token |-> resp'.refresh, at |-> clock, remember_me |-> remember_me]}

\* one account logs in with and without remember_me, through both
\* implementations, and uses its tokens after short and long waits
NextExpiry ==
    \/ \E a \in OneAccount :
          api_register_user(a[1], a[2]) /\ UNCHANGED <<mw_vars, rl_vars, aux_vars>>
    \/ \E i \in LoginNames, r \in BOOLEAN :
          /\ api_login_case(i, RegPassword) = "success"
          /\ api_login_user(i, RegPassword, r)
          /\ record_login(r)
          /\ UNCHANGED <<mw_vars, rl_vars, pending, ret>>
    \/ \E i \in LoginNames, r \in BOOLEAN :
          /\ router_login_case(i, RegPassword) = "success"
          /\ router_login_user(i, RegPassword, r)
          /\ record_login(r)
          /\ UNCHANGED <<mw_vars, rl_vars, pending, ret>>
    \/ \E t \in Presentable :
          api_refresh_token(t) /\ UNCHANGED <<mw_vars, rl_vars, aux_vars>>
    \/ \E t \in Presentable :
          router_refresh_token(t) /\ UNCHANGED <<mw_vars, rl_vars, aux_vars>>
    \/ \E t \in Presentable :
          api_get_user_sessions(t) /\ UNCHANGED <<mw_vars, rl_vars, aux_vars>>
    \/ \E t \in Presentable :
          router_get_user_sessions(t) /\ UNCHANGED <<mw_vars, rl_vars, aux_vars>>
    \/ \E d \in LongClockSteps :
          AuthWait(d) /\ UNCHANGED <<mw_vars, rl_vars, aux_vars>>

\* registrations of two workers, statement by statement
NextRegister ==
    \/ \E c \in Clients, n \in Usernames, e \in Emails :
          api_register_check(c, n, e) /\ UNCHANGED <<mw_vars, rl_vars, logins, ret>>
    \/ \E c \in Clients :
          api_register_commit(c) /\ UNCHANGED <<mw_vars, rl_vars, logins, ret>>
    \/ \E c \in Clients, n \in Usernames, e \in Emails :
          router_register_check(c, n, e) /\ UNCHANGED <<mw_vars, rl_vars, logins, ret>>
    \/ \E c \in Clients :
          router_register_commit(c) /\ UNCHANGED <<mw_vars, rl_vars, logins, ret>>

\* one account whose email is registered in lower case or with an upper-case
\* letter in its local part (EmailStr lowers the domain only and keeps the
\* local part as typed), and logins under every spelling of its identifiers
CaseAccounts == {<<"alice", "alice@x.io">>, <<"alice", "Alice@x.io">>}
CaseIdentifiers == {"alice", "ALICE", "alice@x.io", "Alice@x.io", "Alice@X.io"}

NextCase ==
    \/ \E a \in CaseAccounts :
          api_register_user(a[1], a[2]) /\ UNCHANGED <<mw_vars, rl_vars, aux_vars>>
    \/ \E a \in CaseAccounts :
          router_register_user(a[1], a[2]) /\ UNCHANGED <<mw_vars, rl_vars, aux_vars>>
    \/ \E i \in CaseIdentifiers, pw \in Passwords :
          api_login_user(i, pw, FALSE) /\ UNCHANGED <<mw_vars, rl_vars, aux_vars>>
    \/ \E i \in CaseIdentifiers, pw \in Passwords :
          router_login_user(i, pw, FALSE) /\ UNCHANGED <<mw_vars, rl_vars, aux_vars>>

\* one account of api/auth.py: logins with the right and with a wrong
\* password, refreshes and authenticated requests, before and after the
\* end of a lockout
NextLockout ==
    \/ \E a \in OneAccount :
          api_register_user(a[1], a[2]) /\ UNCHANGED <<mw_vars, rl_vars, aux_vars>>
    \/ \E i \in LoginNames, pw \in Passwords :
          api_login_user(i, pw, TRUE) /\ UNCHANGED <<mw_vars, rl_vars, aux_vars>>
    \/ \E t \in Presentable :
          api_refresh_token(t) /\ UNCHANGED <<mw_vars, rl_vars, aux_vars>>
    \/ \E t \in Presentable :
          api_get_user_sessions(t) /\ UNCHANGED <<mw_vars, rl_vars, aux_vars>>
    \/ \E d \in AuthClockSteps :
          AuthTick(d) /\ UNCHANGED <<mw_vars, rl_vars, aux_vars>>
    \/ \E d \in LongClockSteps :
          AuthWait(d) /\ UNCHANGED <<mw_vars, rl_vars, aux_vars>>

\* wrong-password logins of two workers against one account
WrongPassword == "pw2"

NextLoginRace ==
    \/ \E a \in OneAccount :
          api_register_user(a[1], a[2]) /\ UNCHANGED <<mw_vars, rl_vars, aux_vars>>
    \/ \E c \in Clients, i \in Identifiers :
          api_login_read(c, i, WrongPassword)
          /\ UNCHANGED <<mw_vars, rl_vars, logins, ret>>
    \/ \E c \in Clients :
          api_login_write(c) /\ UNCHANGED <<mw_vars, rl_vars, logins, ret>>

\* the session helpers of AuthUtils applied to the sessions the router makes
\* (0 is a jti no token carries)
Jtis == 0..MaxTokens

NextHelpers ==
    \/ \E a \in OneAccount :
          router_register_user(a[1], a[2]) /\ UNCHANGED <<mw_vars, rl_vars, aux_vars>>
    \/ \E a \in OneAccount, pw \in Passwords :
          /\ router_login_case(a[1], pw) = "success"
          /\ router_login_user(a[1], pw, FALSE)
          /\ UNCHANGED <<mw_vars, rl_vars, aux_vars>>
    \/ \E t \in Presentable, all \in BOOLEAN :
          router_logout_user(t, all) /\ UNCHANGED <<mw_vars, rl_vars, aux_vars>>
    \/ \E j \in Jtis :
          authutils_revoke_user_session(j) /\ UNCHANGED <<mw_vars, rl_vars>>
    \/ \E d \in AuthClockSteps :
          AuthTick(d) /\ UNCHANGED <<mw_vars, rl_vars, aux_vars>>

(***************************************************************************)
(* Claims about the rate limiter                                           *)
(***************************************************************************)

AllIdle == \A p \in Procs : rl_pc[p] = "idle"

\* the checks of key k so far were made one after the other against a store
\* that answered
Undisturbed(k) ==
    \A i \in 1..Len(history[k]) :
        history[k][i].solo /\ history[k][i].via = "decision"

\* number of completed checks of k that were allowed with lo < timestamp <= hi
AllowedIn(k, lo, hi) ==
    Cardinality({i \in 1..Len(history[k]) :
                    /\ history[k][i].outcome = "allowed"
                    /\ lo < history[k][i].t
                    /\ history[k][i].t <= hi})

\* timestamps of the allowed checks of k that lie inside the window ending at t
AllowedTimes(k, t) ==
    {history[k][i].t : i \in {j \in 1..Len(history[k]) :
                                /\ history[k][j].outcome = "allowed"
                                /\ history[k][j].t > t - window_size
                                /\ history[k][j].t <= t}}

\* C1: after any sequence of checks of a key (also several in one clock
\* second), the number of checks answered allowed=true with a timestamp inside
\* any trailing window of window_size seconds never exceeds the limit.
C1_AllowedNeverExceedsLimit ==
    \A k \in Keys :
        Undisturbed(k) =>
            \A i \in 1..Len(history[k]) :
                AllowedIn(k, history[k][i].t - window_size, history[k][i].t)
                    <= rate_limit

\* C2: for a fresh key with limit 5 and window 60, six checks inside one window
\* (equal or distinct timestamps) answer allowed with remaining 4,3,2,1,0 and
\* then denied with remaining 0.
C2_BoundarySequence ==
    \A k \in Keys :
        (/\ rate_limit = 5
         /\ Undisturbed(k)
         /\ \A i \in 1..Len(history[k]) :
               /\ history[k][i].t >= history[k][1].t
               /\ history[k][i].t - history[k][1].t < window_size)
        => \A i \in 1..Len(history[k]) :
              /\ i <= 5 => /\ history[k][i].outcome = "allowed"
                           /\ history[k][i].remaining = 5 - i
              /\ i = 6 => /\ history[k][i].outcome = "denied"
                          /\ history[k][i].remaining = 0

\* C3: a denied check leaves the key's stored window holding exactly the
\* entries of the previously allowed checks that are still inside the window:
\* its own entry is gone and no allowed check's entry was removed.
C3_DenialLeavesAcceptedEntries ==
    \A k \in Keys :
        (/\ AllIdle
         /\ Undisturbed(k)
         /\ Len(history[k]) > 0
         /\ history[k][Len(history[k])].outcome = "denied"
         /\ history[k][Len(history[k])].t = now)
        => zset[k] = AllowedTimes(k, now)

\* C4: when a key holds limit-1 accepted entries inside the window and two
\* checks of it run concurrently, at most one of the two is allowed, whatever
\* the interleaving of their pipeline executions and removals.
C4_AtMostOneOfTwoAllowed ==
    (/\ Len(race.outcomes) = 2
     /\ \A i \in 1..2 : race.outcomes[i].via = "decision")
    => ~(\A i \in 1..2 : race.outcomes[i].outcome = "allowed")

\* C5: whenever the backing store is unavailable or raises during a check, the
\* check answers allowed=true; the failure is never surfaced as an error or as
\* a denial.
C5_FailOpen ==
    \A k \in Keys :
        \A i \in 1..Len(history[k]) :
            history[k][i].via # "decision" =>
                history[k][i].outcome = "allowed"

(***************************************************************************)
(* PART III : MIDDLEWARE STACK                                             *)
(*                                                                         *)
(* main.py registers SecurityMiddleware, then RateLimitMiddleware, then    *)
(* LoggingMiddleware, then CORSMiddleware.  add_middleware puts each new   *)
(* middleware in front of those registered before it, so a request passes  *)
(* CORS, logging, the rate limiter and the security middleware, in that    *)
(* order, before it reaches a handler.  add_middleware is given the CLASS  *)
(* of the instance that init_security_middleware built: the stack holds an *)
(* instance of its own, and get_security_middleware() returns the other.   *)
(* An HTTPException raised inside a middleware's dispatch is outside the   *)
(* exception handlers of the application (they sit between the stack and   *)
(* the router): it travels up the stack and the server answers 500.        *)
(* A request is served in one step; requests of one client IP fall in      *)
(* distinct seconds (the same-second case is Part I's).                    *)
(***************************************************************************)

\* ---- bounds of the middleware model
\* warnings counted per (event type, client IP) pair
MaxWarnings == 2

\* ---- program constants
\* self.anonymous_ip_limit = 20
anonymous_ip_limit == 20
\* if len(self.security_event_cache) > 1000: clear()
event_cache_limit == 1000

\* ---- inputs
MwIps == {"a"}
\* the instance get_security_middleware() returns, and the instance the
\* middleware stack is built with
Instances == {"global", "stack"}
\* plain: a clean GET; bot: a clean GET whose User-Agent names a bot;
\* suspicious: a request with a validation violation; excluded: a clean GET
\* of a path in excluded_paths; preflight_ok / preflight_bad: an OPTIONS
\* request that reaches SecurityMiddleware, from an allowed / another origin
RequestKinds == {"plain", "bot", "suspicious", "excluded", "preflight_ok",
                 "preflight_bad"}
EventTypes == {"suspicious_request", "bot_detected"}
\* the (event type, client IP) pairs whose warnings are counted
NamedPairs == EventTypes \X MwIps

NoMwResponse ==
    [ip |-> "none", kind |-> "none", status |-> 0, raised |-> 0,
     security_headers |-> FALSE, rate_headers |-> FALSE, handled |-> FALSE,
     stages |-> <<>>]

\* what the client receives when dispatch raises HTTPException(raised)
Raised(ip, kind, raised, stages) ==
    [ip |-> ip, kind |-> kind, status |-> 500, raised |-> raised,
     security_headers |-> FALSE, rate_headers |-> FALSE, handled |-> FALSE,
     stages |-> stages]

Returned(ip, kind, status, security_headers, rate_headers, handled, stages) ==
    [ip |-> ip, kind |-> kind, status |-> status, raised |-> 0,
     security_headers |-> security_headers, rate_headers |-> rate_headers,
     handled |-> handled, stages |-> stages]

\* ---- SecurityMiddleware._log_security_event of the stack's instance, for
\* a pair the model names: the warning is logged when the key is not in the
\* cache, and the cache is emptied once it holds more than 1000 keys
log_named_event(pair) ==
    IF pair \in security_event_cache
    THEN UNCHANGED <<security_event_cache, fresh_events, warnings>>
    ELSE /\ warnings[pair] < MaxWarnings
         /\ warnings' = [warnings EXCEPT ![pair] = @ + 1]
         /\ IF Cardinality(security_event_cache) + 1 + fresh_events
                  > event_cache_limit
            THEN security_event_cache' = {} /\ fresh_events' = 0
            ELSE /\ security_event_cache' = security_event_cache \cup {pair}
                 /\ UNCHANGED fresh_events

\* the same for a pair never seen before (a client IP outside the model's)
log_fresh_event ==
    /\ UNCHANGED warnings
    /\ IF Cardinality(security_event_cache) + fresh_events + 1
             > event_cache_limit
       THEN security_event_cache' = {} /\ fresh_events' = 0
       ELSE fresh_events' = fresh_events + 1 /\ UNCHANGED security_event_cache

\* _log_security_event called on one instance, as the tests call it
_log_security_event(event_type, ip) ==
    /\ log_named_event(<<event_type, ip>>)
    /\ UNCHANGED <<blocked_ips, mw_count, mw_resp>>

_log_security_event_fresh ==
    /\ log_fresh_event
    /\ UNCHANGED <<blocked_ips, mw_count, mw_resp>>

\* the security event a request of this kind raises in
\* _validate_request_security / dispatch ("none": no event)
event_of(kind) ==
    CASE kind = "suspicious" -> "suspicious_request"
      [] kind = "bot" -> "bot_detected"
      [] OTHER -> "none"

\* SecurityMiddleware.dispatch of the stack's instance, and what
\* RateLimitMiddleware.dispatch makes of it: stages is the sequence of the
\* checks evaluated so far, rate_headers whether the rate limiter is on the
\* way back
security_dispatch(ip, kind, stages, rate_headers) ==
    IF ip \in blocked_ips["stack"]
    THEN Raised(ip, kind, 403, Append(stages, "block_list"))
    ELSE IF kind = "suspicious"
    THEN Raised(ip, kind, 400, stages \o <<"block_list", "validation">>)
    ELSE IF kind = "preflight_bad"
    THEN Returned(ip, kind, 403, FALSE, rate_headers, FALSE,
                  stages \o <<"block_list", "validation", "preflight">>)
    ELSE IF kind = "preflight_ok"
    THEN Returned(ip, kind, 200, TRUE, rate_headers, FALSE,
                  stages \o <<"block_list", "validation", "preflight">>)
    ELSE Returned(ip, kind, 200, TRUE, rate_headers, TRUE,
                  stages \o <<"block_list", "validation", "handler">>)

\* one request through the stack: RateLimitMiddleware.dispatch, then
\* SecurityMiddleware.dispatch, then the handler
dispatch(ip, kind) ==
    LET limited == kind # "excluded"
        denied == limited /\ mw_denied(mw_count[ip], anonymous_ip_limit)
        logs == /\ ~denied
                /\ ip \notin blocked_ips["stack"]
                /\ event_of(kind) # "none"
    IN /\ IF denied
          THEN /\ mw_resp' = Raised(ip, kind, 429, <<"rate_limit">>)
               /\ UNCHANGED mw_count
          ELSE IF limited
          THEN /\ mw_count' = [mw_count EXCEPT ![ip] = @ + 1]
               /\ mw_resp' = security_dispatch(ip, kind, <<"rate_limit">>, TRUE)
          ELSE /\ mw_resp' = security_dispatch(ip, kind, <<>>, FALSE)
               /\ UNCHANGED mw_count
       /\ IF logs /\ <<event_of(kind), ip>> \in NamedPairs
          THEN log_named_event(<<event_of(kind), ip>>)
          ELSE IF logs
          THEN log_fresh_event
          ELSE UNCHANGED <<security_event_cache, fresh_events, warnings>>
       /\ UNCHANGED blocked_ips

\* add_blocked_ip / remove_blocked_ip on the instance that
\* get_security_middleware() returns
add_blocked_ip(ip_address) ==
    /\ blocked_ips' = [blocked_ips EXCEPT !["global"] = @ \cup {ip_address}]
    /\ UNCHANGED <<security_event_cache, fresh_events, warnings, mw_count,
                   mw_resp>>

remove_blocked_ip(ip_address) ==
    /\ blocked_ips' = [blocked_ips EXCEPT !["global"] = @ \ {ip_address}]
    /\ UNCHANGED <<security_event_cache, fresh_events, warnings, mw_count,
                   mw_resp>>

\* a minute passes: the entries of every key leave the window
WindowPasses ==
    /\ mw_count' = [ip \in MwIps |-> 0]
    /\ UNCHANGED <<blocked_ips, security_event_cache, fresh_events, warnings,
                   mw_resp>>

InitMW ==
    /\ blocked_ips = [i \in Instances |-> {}]
    /\ security_event_cache = {}
    /\ fresh_events = 0
    /\ warnings = [pair \in NamedPairs |-> 0]
    /\ mw_count = [ip \in MwIps |-> 0]
    /\ mw_resp = NoMwResponse

\* the application serving requests while the block list is administered
NextPipeline ==
    \/ \E ip \in MwIps, kind \in RequestKinds :
          dispatch(ip, kind) /\ UNCHANGED <<rl_vars, auth_vars, aux_vars>>
    \/ \E ip \in MwIps :
          add_blocked_ip(ip) /\ UNCHANGED <<rl_vars, auth_vars, aux_vars>>
    \/ \E ip \in MwIps :
          remove_blocked_ip(ip) /\ UNCHANGED <<rl_vars, auth_vars, aux_vars>>
    \/ WindowPasses /\ UNCHANGED <<rl_vars, auth_vars, aux_vars>>

\* security events seen by one instance
NextEvents ==
    \/ \E pair \in NamedPairs :
          _log_security_event(pair[1], pair[2])
          /\ UNCHANGED <<rl_vars, auth_vars, aux_vars>>
    \/ _log_security_event_fresh /\ UNCHANGED <<rl_vars, auth_vars, aux_vars>>

vars == <<rl_vars, auth_vars, aux_vars, mw_vars>>

Init == InitRL /\ InitAuth /\ InitAux /\ InitMW

Next == NextRL \/ NextAuth

\* the rate limiter alone (the auth tables stay as constructed)
SpecRL == Init /\ [][NextRL]_vars

\* the auth service under one configuration of the rate limiter, which no
\* auth handler reads
InitOneLimiter ==
    /\ Init
    /\ redis_client
    /\ rate_limit = 5
    /\ limiter = "middleware"

\* registration and login (the rate limiter stays as constructed)
SpecLogin == InitOneLimiter /\ [][NextLogin]_vars

\* sessions and tokens (the rate limiter stays as constructed)
SpecSession == InitOneLimiter /\ [][NextSession]_vars

\* concurrent requests of api/auth.py (the rate limiter stays as constructed)
SpecRace == InitOneLimiter /\ [][NextRace]_vars

\* revocation of sessions (the rate limiter stays as constructed)
SpecRevoke == InitOneLimiter /\ [][NextRevoke]_vars

\* logout with two accounts (the rate limiter stays as constructed)
SpecLogout == InitOneLimiter /\ [][NextLogout]_vars

\* the session helpers of AuthUtils (the rate limiter stays as constructed)
SpecHelpers == InitOneLimiter /\ [][NextHelpers]_vars
SpecExpiry == InitOneLimiter /\ [][NextExpiry]_vars
SpecRegister == InitOneLimiter /\ [][NextRegister]_vars
SpecCase == InitOneLimiter /\ [][NextCase]_vars
SpecLockout == InitOneLimiter /\ [][NextLockout]_vars
SpecLoginRace == InitOneLimiter /\ [][NextLoginRace]_vars

\* the middleware stack (the limiter of Part I and the auth tables stay as
\* constructed)
SpecPipeline == InitOneLimiter /\ [][NextPipeline]_vars
SpecEvents == InitOneLimiter /\ [][NextEvents]_vars

Spec == Init /\ [][Next]_vars

(***************************************************************************)
(* Claims about login and lockout                                          *)
(***************************************************************************)
\* the user a login run (of either implementation) selects is locked now
LockedNow(u) == u # 0 /\ api_is_locked(u)

\* C6: lockout-until is set exactly when the 5th consecutive wrong-password
\* login of a user is processed: with fewer than 5 failures since the last
\* successful login the account carries no lockout, with 5 or more it does
\* (streak counts the wrong-password logins since the last success).
C6_LockoutAtFifthFailure ==
    \A u \in UserIds :
        (streak[u] >= max_login_attempts) <=> (users[u].locked_until # -1)

\* C7: a login for a user whose lockout-until is in the future answers 423
\* (account locked) whatever the password, and leaves the user rows, the
\* session table and the set of issued tokens as they were.
C7_LockedLoginRejectedUnchanged ==
    [][\A i \in Identifiers, pw \in Passwords :
          (\/ LockedNow(api_find_user(i))
                /\ \E r \in BOOLEAN : api_login_user(i, pw, r)
           \/ LockedNow(found_user(i))
                /\ \E r \in BOOLEAN : router_login_user(i, pw, r))
          => /\ resp'.status = 423
             /\ UNCHANGED <<users, sessions, tokens>>]_vars

\* C8: a login with a wrong password for an existing unlocked user returns
\* the very response that a login with an identifier matching no user
\* returns from the same state (same status, same detail), in either
\* implementation.  A step that adds one to a user's streak is the processing
\* of a wrong-password login for that user.
C8_SameOutcomeNoUserWrongPassword ==
    [][(/\ resp'.op = "login"
        /\ \E u \in UserIds : streak'[u] = streak[u] + 1 /\ ~api_is_locked(u))
       => \A j \in Identifiers, pw \in Passwords :
             /\ (resp'.impl = "api" /\ api_login_case(j, pw) = "no_user")
                => resp' = api_login_error(api_login_case(j, pw))
             /\ (resp'.impl = "routers" /\ found_user(j) = 0)
                => resp' = router_login_error(router_login_case(j, pw))]_vars

\* a wrong-password login of an existing unlocked user has just been answered
\* by each implementation in turn, while some identifier matches no user
C8_Witness ==
    /\ resp.op = "login" /\ resp.impl = "routers" /\ resp.status = 401
    /\ \E u \in UserIds : /\ streak[u] = 2
                          /\ users[u].login_attempts = 1
                          /\ ~api_is_locked(u)
    /\ \E j \in Identifiers : api_find_user(j) = 0 /\ found_user(j) = 0

(***************************************************************************)
(* Claims about refresh                                                    *)
(***************************************************************************)
\* C9: a refresh presenting an unexpired refresh token whose jti has no
\* active session row never answers 200 with a token pair.
C9_NoRefreshWithoutActiveSession ==
    [][\A t \in tokens :
          (/\ t.type = "refresh"
           /\ t.exp > clock
           /\ is_token_revoked(t.jti)
           /\ (api_refresh_token(t) \/ router_refresh_token(t)))
          => resp'.status # 200]_vars

\* C10: once a refresh has succeeded with refresh token R, no later refresh
\* presenting R succeeds (rotated holds the refresh tokens already used).
C10_RotatedTokenRejected ==
    [][\A t \in rotated :
          (api_refresh_token(t) \/ router_refresh_token(t))
          => resp'.status # 200]_vars

(***************************************************************************)
(* Claims about concurrent refresh, logout and password change             *)
(***************************************************************************)
\* client c's refresh_token handler answers 200 in this step
RefreshReturns(c) ==
    /\ pending[c] # NoPending
    /\ pending[c].op = "refresh"
    /\ pending'[c] = NoPending
    /\ resp'.op = "refresh"
    /\ resp'.status = 200

\* C11: whatever runs between its two database steps, a refresh(R) returns
\* a token pair only if it itself rotated R's still-active session row to
\* the jti of the refresh token it returns (so of two concurrent refresh(R)
\* at most one returns a pair).
C11_RefreshReturnsOnlyIfItRotated ==
    [][\A c \in Clients :
          RefreshReturns(c)
          => \E s \in SessionIds :
                /\ sessions[s].is_active
                /\ sessions[s].token_jti = pending[c].token.jti
                /\ sessions'[s].token_jti = resp'.refresh.jti]_vars

\* a refresh with t would be refused by both refresh endpoints
RefreshRefused(t) ==
    /\ verify_refresh_token(t) # NoResponse
    /\ router_refresh_error(t) # NoResponse

\* the refresh tokens issued to user u so far
RefreshTokensOf(u) == {t \in tokens : t.type = "refresh" /\ t.sub = u}

\* C12: when change_password succeeds for a user, every session of that
\* user is inactive afterwards and a refresh with any refresh token issued
\* to that user before the change is refused.
C12_PasswordChangeRevokesSessions ==
    [][(resp'.op = "change_password" /\ resp'.status \in {200, 204})
       => /\ \A s \in SessionIds :
                sessions[s].user_id = resp'.user => ~sessions'[s].is_active
          /\ \A t \in RefreshTokensOf(resp'.user) : RefreshRefused(t)']_vars

\* C13: when logout with revoke_all succeeds for a user, no session of that
\* user is active afterwards, the sessions of other users are unchanged, and
\* a refresh with any refresh token issued to that user before is refused.
C13_LogoutAllRevokesEverything ==
    [][(/\ resp'.op = "logout"
        /\ resp'.status = 200
        /\ \E t \in tokens : router_logout_user(t, TRUE))
       => /\ \A s \in SessionIds :
                IF sessions[s].user_id = resp'.user
                THEN ~sessions'[s].is_active
                ELSE sessions'[s] = sessions[s]
          /\ \A t \in RefreshTokensOf(resp'.user) : RefreshRefused(t)']_vars

\* C14: a logout without revoke_all that succeeds for a user with an active
\* session inactivates exactly one session, an active session of that user
\* with the greatest last_activity, and leaves every other row unchanged.
C14_LogoutRevokesMostRecent ==
    [][(/\ resp'.op = "logout"
        /\ resp'.status \in {200, 204}
        /\ latest_sessions(resp'.user) # {}
        /\ \E t \in tokens : api_logout_user(t) \/ router_logout_user(t, FALSE))
       => \E latest \in latest_sessions(resp'.user) :
             /\ ~sessions'[latest].is_active
             /\ \A s \in SessionIds \ {latest} : sessions'[s] = sessions[s]]_vars

\* C15: logout reports success for every presented bearer token.
C15_LogoutAlwaysSucceeds ==
    resp.op = "logout" => resp.status \in {200, 204}

C17_RevokeReturnsWhetherChanged ==
    [][ret' # ret
       => /\ ret'.value => ret'.changed
          /\ ~\E s \in DOMAIN sessions' :
                 /\ sessions'[s].token_jti = ret'.jti
                 /\ sessions'[s].is_active]_vars

\* the response is the InvalidToken error of one of the token verifiers
InvalidToken(r) ==
    /\ r.status = 401
    /\ r.detail \in {"Could not validate credentials", "Invalid token",
                     "Invalid token type"}

\* the request of this step presents t where an access token is required
PresentsAsAccess(t) ==
    \/ api_logout_user(t)
    \/ \E all \in BOOLEAN : router_logout_user(t, all)
    \/ \E cur \in Passwords, new \in Passwords :
          api_change_password(t, cur, new) \/ router_change_password(t, cur, new)
    \/ \E id \in SessionPathIds :
          api_terminate_user_session(t, id) \/ router_revoke_session(t, id)
    \/ api_get_user_sessions(t)
    \/ router_get_user_sessions(t)

\* C18: a request that requires an access token and presents a refresh
\* token, and a refresh that presents an access token, are answered with
\* the InvalidToken error of the token verification.
C18_TokenTypeIsolation ==
    [][\A t \in tokens :
          /\ (t.type = "refresh" /\ resp'.op # "refresh" /\ PresentsAsAccess(t))
             => InvalidToken(resp')
          /\ (t.type = "access" /\ resp'.op = "refresh"
              /\ (api_refresh_token(t) \/ router_refresh_token(t)))
             => InvalidToken(resp')]_vars

\* no request that presents a token of the wrong type is served
C18_NeverServed ==
    [][\A t \in tokens :
          /\ (t.type = "refresh" /\ resp'.op # "refresh" /\ PresentsAsAccess(t))
             => resp'.status \notin {200, 204}
          /\ (t.type = "access" /\ resp'.op = "refresh"
              /\ (api_refresh_token(t) \/ router_refresh_token(t)))
             => resp'.status \notin {200, 204}]_vars

\* the lifetime, in minutes, of the token a login handed out
Lifetime(e) ==
    IF e.token.type = "access" THEN access_token_minutes
    ELSE IF e.remember_me THEN refresh_token_minutes
    ELSE short_session_minutes

\* the request of this step presents t for the use its type is meant for
PresentsForUse(t) ==
    IF t.type = "refresh"
    THEN api_refresh_token(t) \/ router_refresh_token(t)
    ELSE api_get_user_sessions(t) \/ router_get_user_sessions(t)

\* C19: a token handed out by a login is rejected once more than its
\* lifetime has passed since that login: 24 hours for a refresh token asked
\* without remember_me, 7 days with it, 15 minutes for an access token.
C19_TokensExpireOnTime ==
    [][\A e \in logins :
          (/\ clock > e.at + Lifetime(e)
           /\ resp' # resp
           /\ PresentsForUse(e.token))
          => resp'.status # 200]_vars

\* the response is the Conflict error of a registration
Conflict(r) ==
    /\ r.op = "register"
    /\ r.status \in {400, 409}
    /\ r.detail \in {"Username already registered", "Email already registered",
                     "Username already exists"}

\* no two user records share a username or an email
UniqueUsers ==
    \A u \in UserIds, v \in UserIds :
        u # v => /\ users[u].username # users[v].username
                 /\ users[u].email # users[v].email

\* C20: no two user records ever share a username or an email, and a
\* registration that finishes when its username or its email already exists
\* is answered with Conflict and creates no user, no session and no token.
C20_RegisterUniqueOrConflict ==
    [][/\ UniqueUsers'
       /\ \A c \in Clients :
             (/\ pending[c].op = "register"
              /\ pending'[c] = NoPending
              /\ unique_violation(pending[c].username, pending[c].email))
             => /\ Conflict(resp')
                /\ UNCHANGED <<users, sessions, tokens>>]_vars

\* the two halves of C20 that the unique constraints do keep
C20_NothingCreated ==
    [][/\ UniqueUsers'
       /\ \A c \in Clients :
             (/\ pending[c].op = "register"
              /\ pending'[c] = NoPending
              /\ unique_violation(pending[c].username, pending[c].email))
             => UNCHANGED <<users, sessions, tokens>>]_vars

(***************************************************************************)
(* Claims about sessions at login, identifiers, the middleware stack and   *)
(* the lockout.                                                            *)
(***************************************************************************)

\* this step is a register or a login that succeeded
SucceededToSignIn ==
    /\ resp'.op \in {"register", "login"}
    /\ resp'.status \in {200, 201}
    /\ users' # users \/ tokens' # tokens

\* C21: every successful register and every successful login returns an
\* access and a refresh token and leaves exactly one new active session row,
\* whose jti is the jti of the returned refresh token.
C21_SignInCreatesRefreshSession ==
    [][SucceededToSignIn
       => /\ resp'.access # NoToken
          /\ resp'.refresh # NoToken
          /\ Len(sessions') = Len(sessions) + 1
          /\ \A s \in DOMAIN sessions : sessions'[s] = sessions[s]
          /\ sessions'[Len(sessions')].is_active
          /\ sessions'[Len(sessions')].token_jti = resp'.refresh.jti]_vars

\* the identifier is a spelling of the username or of the email of user u
SpellingOf(i, u) ==
    \/ lower(i) = lower(users[u].username)
    \/ lower(i) = lower(users[u].email)

\* C22: for a registered user, a login under any letter-case spelling of the
\* username or of the email finds that user and goes the way the login
\* under the username as registered goes, in either implementation.
C22_LoginIgnoresCase ==
    \A u \in UserIds, i \in CaseIdentifiers, pw \in Passwords :
        SpellingOf(i, u)
        => /\ api_find_user(i) = u
           /\ api_login_case(i, pw) = api_login_case(users[u].username, pw)
           /\ router_login_case(i, pw)
                 = router_login_case(users[u].username, pw)

\* the position of a stage in the stages of a response (0: not evaluated)
StageAt(stages, name) ==
    IF \E i \in DOMAIN stages : stages[i] = name
    THEN CHOOSE i \in DOMAIN stages : stages[i] = name
    ELSE 0

\* stage x, where evaluated together with stage y, was evaluated before it
Before(stages, x, y) ==
    (StageAt(stages, x) # 0 /\ StageAt(stages, y) # 0)
    => StageAt(stages, x) < StageAt(stages, y)

\* C23: for every request the block-list check and the validation are
\* evaluated before the rate-limit check and the rate-limit check before the
\* handler; a request rejected by the block list or by the validation
\* consumes no rate-limit quota, and a rate-limited request reaches no
\* handler.
C23_StagesInOrder ==
    [][/\ Before(mw_resp'.stages, "block_list", "rate_limit")
       /\ Before(mw_resp'.stages, "validation", "rate_limit")
       /\ Before(mw_resp'.stages, "rate_limit", "handler")
       /\ (mw_resp'.raised \in {400, 403} /\ mw_resp' # mw_resp)
          => mw_count' = mw_count
       /\ mw_resp'.raised = 429 => ~mw_resp'.handled]_vars

\* the order the stack has, and the two consequences that do hold
C23_RateLimitFirst ==
    [][/\ Before(mw_resp'.stages, "rate_limit", "block_list")
       /\ Before(mw_resp'.stages, "rate_limit", "validation")
       /\ Before(mw_resp'.stages, "rate_limit", "handler")
       /\ (mw_resp'.raised = 429 /\ mw_resp' # mw_resp)
          => (~mw_resp'.handled /\ mw_count' = mw_count)]_vars

\* this step serves a request (a step that repeats the last response to the
\* letter and stores nothing is not told apart from no step)
Serves ==
    mw_resp' # mw_resp \/ mw_count' # mw_count

\* C24: while an IP is on the block list of the instance that
\* get_security_middleware() returns, every request from that IP is
\* rejected with 403 and reaches no handler.
C24_BlockedIpRejected ==
    [][(Serves /\ mw_resp'.ip \in blocked_ips["global"])
       => /\ ~mw_resp'.handled
          /\ mw_resp'.status = 403 \/ mw_resp'.raised = 403]_vars

\* C25: every response carries the security headers and the rate-limit
\* headers, the error responses included.
C25_HeadersOnEveryResponse ==
    mw_resp.status # 0
    => mw_resp.security_headers /\ mw_resp.rate_headers

\* the responses that do carry both: those of a handler or of an allowed
\* preflight, on a path the rate limiter does not exclude
C25_HeadersOnSuccess ==
    (mw_resp.status = 200 /\ mw_resp.kind # "excluded")
    => mw_resp.security_headers /\ mw_resp.rate_headers

\* C26: a warning is logged at most once for each (event type, client IP)
\* pair.
C26_OneWarningPerPair ==
    \A pair \in NamedPairs : warnings[pair] <= 1

\* C27: get_current_user of core/dependencies.py answers Locked to a valid
\* access token only while the user's lockout-until lies in the future.
C27_LockedOnlyDuringLockout ==
    [][\A t \in tokens :
          (/\ resp'.op = "sessions"
           /\ resp'.status = 423
           /\ resp' # resp
           /\ api_get_user_sessions(t))
          => users[t.sub].locked_until >= clock]_vars

\* this step is a login of api/auth.py that failed on the password
WrongPasswordStep(u) ==
    /\ resp'.op = "login"
    /\ resp'.impl = "api"
    /\ resp'.status = 401
    /\ users'[u].login_attempts = users[u].login_attempts + 1

\* C30: the end of a lockout does not reset the failed-attempt counter: the
\* first wrong-password login after it sets a new 30-minute lockout at
\* once, and the counter goes back to 0 only by a successful login.
C30_LockoutExpiryKeepsCounter ==
    [][\A u \in UserIds :
          /\ (/\ users[u].locked_until # -1
              /\ ~api_is_locked(u)
              /\ WrongPasswordStep(u))
             => users'[u].locked_until = clock + lockout_minutes
          /\ (u \in DOMAIN users'
              /\ users'[u].login_attempts < users[u].login_attempts)
             => /\ resp'.op = "login"
                /\ resp'.status = 200
                /\ users'[u].login_attempts = 0]_vars

\* a lockout has ended and the wrong-password login that followed it has set
\* the next one
C30_Witness ==
    \E u \in UserIds :
        /\ users[u].login_attempts = max_login_attempts + 1
        /\ users[u].locked_until = clock + lockout_minutes
        /\ clock > 0
        /\ resp.op = "login"
        /\ resp.status = 401

\* C28: once concurrent wrong-password logins against an unlocked user have
\* completed, the failed-attempt counter has grown by their number (streak
\* counts them), so 5 of them leave the account locked.
C28_NoLostFailedAttempt ==
    (\A c \in Clients : pending[c] = NoPending)
    => \A u \in UserIds :
          /\ users[u].login_attempts = streak[u]
          /\ streak[u] >= max_login_attempts => users[u].locked_until # -1

\* the request of this step presents t to an authenticated endpoint of
\* routers/auth.py
PresentsToRouter(t) ==
    \/ \E all \in BOOLEAN : router_logout_user(t, all)
    \/ \E cur \in Passwords, new \in Passwords :
          router_change_password(t, cur, new)
    \/ \E id \in SessionPathIds : router_revoke_session(t, id)
    \/ router_get_user_sessions(t)

\* C29: an authenticated endpoint of routers/auth.py lets a token pass
\* get_current_user (it answers something other than the 401 of the
\* dependency) only while an active session row carries the token's jti: an
\* access token whose session was inactivated by a logout or a termination
\* is rejected.
C29_AcceptedOnlyWithActiveSession ==
    [][(/\ resp'.impl = "routers"
        /\ resp'.op \in {"logout", "change_password", "terminate", "sessions"}
        /\ resp'.status # 401)
       => \A t \in Presentable :
             PresentsToRouter(t)
             => \E s \in SessionIds : /\ sessions[s].token_jti = t.jti
                                      /\ sessions[s].is_active]_vars

\* an unexpired access token of routers/auth.py whose session row a logout or
\* a termination has inactivated, and a request just rejected as revoked
C29_Witness ==
    /\ resp.impl = "routers"
    /\ resp.op \in {"logout", "change_password", "terminate", "sessions"}
    /\ resp.status = 401
    /\ resp.detail = "Token has been revoked"
    /\ \E t \in tokens :
          /\ t.codec = "authutils"
          /\ t.type = "access"
          /\ t.exp > clock
          /\ \E s \in SessionIds : /\ sessions[s].token_jti = t.jti
                                   /\ ~sessions[s].is_active

====
